---- MODULE Spec2Model ----
(***************************************************************************)
(* Model of the Carbon lexer, TokenizedBuffer::Lex and its Lexer helper    *)
(* class (lexer/tokenized_buffer.cpp).  Source text is a sequence of       *)
(* one-character strings.  Token, Line and Identifier handles are the      *)
(* 0-based indices the code uses; TLA+ sequences are 1-based, so handle h  *)
(* is stored at position h + 1.                                            *)
(***************************************************************************)
EXTENDS Integers, Sequences, FiniteSets, TLC

(***************************************************************************)
(* Bounds of the explored inputs.                                          *)
(***************************************************************************)
MaxLenGroups == 4
MaxLenNumber == 4
MaxLenLines == 4
MaxLenWords == 5
MaxLenMixed == 3
MaxLenDecimalTail == 8
MaxLenRadixTail == 6
MaxFunctions == 2
MaxParameters == 1
MaxStatements == 1

(***************************************************************************)
(* Character classes (llvm::isDigit, llvm::isAlpha, llvm::isAlnum).        *)
(***************************************************************************)
Digits == {"0", "1", "2", "3", "4", "5", "6", "7", "8", "9"}

UpperLetters ==
  {"A", "B", "C", "D", "E", "F", "G", "H", "I", "J", "K", "L", "M",
   "N", "O", "P", "Q", "R", "S", "T", "U", "V", "W", "X", "Y", "Z"}

LowerLetters ==
  {"a", "b", "c", "d", "e", "f", "g", "h", "i", "j", "k", "l", "m",
   "n", "o", "p", "q", "r", "s", "t", "u", "v", "w", "x", "y", "z"}

isDigit(c) == c \in Digits

isAlpha(c) == c \in UpperLetters \cup LowerLetters

isAlnum(c) == isAlpha(c) \/ isDigit(c)

IsWordChar(c) == isAlnum(c) \/ c = "_"

(***************************************************************************)
(* llvm::StringRef helpers.                                                *)
(***************************************************************************)
StartsWith(text, prefix) ==
  /\ Len(text) >= Len(prefix)
  /\ SubSeq(text, 1, Len(prefix)) = prefix

DropFront(text, n) == SubSeq(text, n + 1, Len(text))

TakeFront(text, n) == SubSeq(text, 1, IF n < Len(text) THEN n ELSE Len(text))

\* StringRef::take_while: the longest prefix all of whose characters satisfy
\* the predicate; accepted[i] tells whether text[i] satisfies it.
TakeWhile(text, accepted) ==
  LET n == CHOOSE i \in 0..Len(text) :
             /\ \A j \in 1..i : accepted[j]
             /\ (i = Len(text) \/ ~accepted[i + 1])
  IN SubSeq(text, 1, n)

\* StringRef::substr(start, n) and StringRef::slice(start, stop), 0-based.
Substr(text, start, n) ==
  LET s == IF start < Len(text) THEN start ELSE Len(text)
      e == IF s + n < Len(text) THEN s + n ELSE Len(text)
  IN SubSeq(text, s + 1, e)

Slice(text, start, stop) ==
  LET s == IF start < Len(text) THEN start ELSE Len(text)
      e0 == IF stop < Len(text) THEN stop ELSE Len(text)
      e == IF e0 < s THEN s ELSE e0
  IN SubSeq(text, s + 1, e)

(***************************************************************************)
(* The token registry (lexer/token_registry.def) and the TokenKind         *)
(* queries.  Symbols are listed in the order the StringSwitch tries them.  *)
(***************************************************************************)
SymbolTokens ==
  << [name |-> "MinusGreater", spelling |-> <<"-", ">">>],
     [name |-> "Minus", spelling |-> <<"-">>],
     [name |-> "OpenParen", spelling |-> <<"(">>],
     [name |-> "CloseParen", spelling |-> <<")">>],
     [name |-> "OpenSquareBracket", spelling |-> <<"[">>],
     [name |-> "CloseSquareBracket", spelling |-> <<"]">>],
     [name |-> "OpenCurlyBrace", spelling |-> <<"{">>],
     [name |-> "CloseCurlyBrace", spelling |-> <<"}">>],
     [name |-> "Semi", spelling |-> <<";">>] >>

KeywordTokens ==
  << [name |-> "FnKeyword", spelling |-> <<"f", "n">>] >>

IsOpeningSymbol(kind) ==
  kind \in {"OpenParen", "OpenSquareBracket", "OpenCurlyBrace"}

IsClosingSymbol(kind) ==
  kind \in {"CloseParen", "CloseSquareBracket", "CloseCurlyBrace"}

GetClosingSymbol(kind) ==
  CASE kind = "OpenParen" -> "CloseParen"
    [] kind = "OpenSquareBracket" -> "CloseSquareBracket"
    [] kind = "OpenCurlyBrace" -> "CloseCurlyBrace"
    [] OTHER -> "Error"

GetFixedSpelling(kind) ==
  LET syms == {i \in 1..Len(SymbolTokens) : SymbolTokens[i].name = kind}
      kws == {i \in 1..Len(KeywordTokens) : KeywordTokens[i].name = kind}
  IN IF syms # {} THEN SymbolTokens[CHOOSE i \in syms : TRUE].spelling
     ELSE IF kws # {} THEN KeywordTokens[CHOOSE i \in kws : TRUE].spelling
     ELSE <<>>

\* StringSwitch over the symbols with StartsWith: the first match wins.
MatchSymbol(text) ==
  LET hits == {i \in 1..Len(SymbolTokens) :
                 StartsWith(text, SymbolTokens[i].spelling)}
  IN IF hits = {} THEN "Error"
     ELSE SymbolTokens[CHOOSE i \in hits : \A j \in hits : i <= j].name

\* StringSwitch over the keywords with Case: exact match.
MatchKeyword(text) ==
  LET hits == {i \in 1..Len(KeywordTokens) : KeywordTokens[i].spelling = text}
  IN IF hits = {} THEN "Error"
     ELSE KeywordTokens[CHOOSE i \in hits : \A j \in hits : i <= j].name

(***************************************************************************)
(* Records of the Token Store.                                             *)
(***************************************************************************)
NoVal == -1

TokenInfo(kind, line, column) ==
  [kind |-> kind, is_recovery |-> FALSE, token_line |-> line,
   column |-> column, id |-> NoVal, literal_index |-> NoVal,
   closing_token |-> NoVal, opening_token |-> NoVal, error_length |-> NoVal]

LineInfo(start, length, indent) ==
  [start |-> start, length |-> length, indent |-> indent]

\* One emission to the DiagnosticEmitter: the diagnostic and its substitutions.
Diag(kind) == [kind |-> kind, digit |-> "", radix |-> 0]

(***************************************************************************)
(* Inputs.                                                                 *)
(***************************************************************************)
Texts(alphabet, n) == UNION {[1..k -> alphabet] : k \in 0..n}

GroupChars == {"(", ")", "[", "]", ";"}

NumberChars == {"0", "1", "_", "x", "b", "A"}

LineChars == {"/", " ", "\n", "\t", "a", "$"}

WordChars == {"f", "n", "_", " "}

MixedChars == {"(", ")", "]", "1", "_", "a", "/", " ", "\n", "$"}

TailChars == {"0", "_"}

\* Literals long enough for digit groups: a leading 1, then zeros and
\* separators, in decimal and behind the two radix prefixes.
GroupedLiterals ==
  {<<"1">> \o tail : tail \in Texts(TailChars, MaxLenDecimalTail)}
    \cup {prefix \o <<"1">> \o tail :
            prefix \in {<<"0", "x">>, <<"0", "b">>},
            tail \in Texts(TailChars, MaxLenRadixTail)}

\* Texts of several lines, longer than the families above reach: a comment
\* line followed by a line with a token and a trailing "//".
CommentedLines ==
  {<<"/", "/", "$", "\n", "a", " ", "/", "/">>,
   <<"/", "/", "/", " ", "a", "\n", "a", " ", "/", "/", "/">>}

\* A text of several literals: hexadecimal, an empty digit sequence, decimal
\* with a separator, binary.
LiteralRows ==
  {<<"0", "x", "1", "F", " ", "0", "x", " ", "1", "_", "0", " ",
     "0", "b", "1", "0">>}

Inputs ==
  Texts(GroupChars, MaxLenGroups) \cup Texts(NumberChars, MaxLenNumber)
    \cup Texts(LineChars, MaxLenLines) \cup Texts(WordChars, MaxLenWords)
    \cup Texts(MixedChars, MaxLenMixed) \cup GroupedLiterals
    \cup CommentedLines \cup LiteralRows

(***************************************************************************)
(* Records of the semantics context.                                       *)
(***************************************************************************)
Unreachable == NoVal    \* SemanticsNodeBlockId::Unreachable
InvalidType == NoVal    \* SemanticsTypeId::Invalid

StackEntry(kind, id) == [kind |-> kind, id |-> id]

SemanticsNode(kind, parse_node, args) ==
  [kind |-> kind, parse_node |-> parse_node, args |-> args]

\* The context at the start of a file: the file's node block and the file's
\* scope are open, nothing is on the other stacks.
NewContext ==
  [node_stack |-> <<>>, declaration_name_stack |-> <<>>,
   node_block_stack |-> <<0>>, node_blocks |-> << <<>> >>,
   nodes |-> <<>>, functions |-> <<>>, scope_stack |-> << {} >>,
   return_scope_stack |-> <<>>, emitted |-> <<>>, result |-> TRUE]

VARIABLES
  source,            \* SourceBuffer text of the run
  source_text,       \* the part of the text not yet consumed
  token_infos,       \* TokenizedBuffer::token_infos
  line_infos,        \* TokenizedBuffer::line_infos
  identifier_infos,  \* TokenizedBuffer::identifier_infos
  identifier_map,    \* TokenizedBuffer::identifier_map
  int_literals,      \* TokenizedBuffer::int_literals
  has_errors,        \* TokenizedBuffer::has_errors
  current_line,      \* Lexer::current_line (current_line_info points at it)
  current_column,    \* Lexer::current_column
  set_indent,        \* Lexer::set_indent
  open_groups,       \* Lexer::open_groups
  emitted,           \* what the DiagnosticEmitter received, in order
  errs,              \* what was written to llvm::errs(), in order
  scanned,           \* history: per token, the source span consumed for it
  original,          \* history: the first lexing, once its tokens are re-lexed
  pc,                \* position in TokenizedBuffer::Lex
  context            \* the SemanticsContext the handlers work on

vars ==
  <<source, source_text, token_infos, line_infos, identifier_infos,
    identifier_map, int_literals, has_errors, current_line, current_column,
    set_indent, open_groups, emitted, errs, scanned, original, pc,
    context>>

\* What is kept of a first lexing when its tokens are lexed again.
FirstLexing(lexed, text, kinds, errors) ==
  [lexed |-> lexed, source |-> text, kinds |-> kinds, has_errors |-> errors]

\* TokenizedBuffer buffer(source); Lexer lexer(buffer, emitter).
Init ==
  /\ source \in Inputs
  /\ original = FirstLexing(FALSE, <<>>, <<>>, FALSE)
  /\ context = NewContext
  /\ source_text = source
  /\ token_infos = <<>>
  /\ line_infos = <<LineInfo(0, 0, 0)>>
  /\ identifier_infos = <<>>
  /\ identifier_map = {}
  /\ int_literals = <<>>
  /\ has_errors = FALSE
  /\ current_line = 0
  /\ current_column = 0
  /\ set_indent = FALSE
  /\ open_groups = <<>>
  /\ emitted = <<>>
  /\ errs = <<>>
  /\ scanned = <<>>
  /\ pc = "skip"


(***************************************************************************)
(* History of the scan: Offset is the number of bytes consumed so far, and *)
(* scanned records for each token, when it is appended, the half-open span *)
(* [start, stop) of source bytes consumed for it (empty for a token that   *)
(* error recovery inserts).                                                *)
(***************************************************************************)
Offset == Len(source) - Len(source_text)

Span(start, stop) == [start |-> start, stop |-> stop]

EmptySpans(n, at) == [i \in 1..n |-> Span(at, at)]

(***************************************************************************)
(* TokenizedBuffer::AddToken and AddLine: append, the handle is the index. *)
(***************************************************************************)
AddToken(infos, info) == Append(infos, info)

AddLine(infos, info) == Append(infos, info)

(***************************************************************************)
(* Lexer::SkipWhitespace, one iteration of its while loop per step.  The   *)
(* step leaves pc at "skip" when the loop continues, moves to "lex" when   *)
(* the function returns true and to "close" when it returns false.         *)
(***************************************************************************)
NotNewline(c) == c # "\n"

\* Faulty variant of NextLineStart: the newline itself is not counted.
NextLineStart_NoNewline(line_info, column) == line_info.start + column

\* The start offset of the line after line_info, whose newline is at column
\* (line 212).
NextLineStart(line_info, column) == line_info.start + column + 1

\* Faulty variant of IsComment: a comment may begin anywhere on the line.
IsComment_Anywhere(text, indent_set) == StartsWith(text, <<"/", "/">>)

\* The test of line 171: a comment begins here.
IsComment(text, indent_set) ==
  StartsWith(text, <<"/", "/">>) /\ ~indent_set

\* The test of line 178: the comment is a documentation comment.
IsDocComment(text) == StartsWith(text, <<"/", "/", "/">>)

SkipWhitespace ==
  /\ pc = "skip"
  /\ IF source_text = <<>>
     THEN \* loop condition fails: record the last line's length, return false
          /\ line_infos' =
               [line_infos EXCEPT ![current_line + 1].length = current_column]
          /\ pc' = "close"
          /\ UNCHANGED <<source_text, token_infos, current_line,
                         current_column, set_indent, scanned>>
     ELSE LET comment == IsComment(source_text, set_indent)
              doc == comment /\ IsDocComment(source_text)
              \* after the comment branch
              skipped == IF comment THEN TakeWhile(source_text,
                                [i \in 1..Len(source_text) |->
                                   NotNewline(source_text[i])])
                         ELSE <<>>
              text1 == DropFront(source_text, Len(skipped))
              column1 == current_column + Len(skipped)
              set_indent1 == IF doc THEN TRUE ELSE set_indent
              lines1 == IF doc
                        THEN [line_infos EXCEPT
                                ![current_line + 1].indent = current_column]
                        ELSE line_infos
              tokens1 == IF doc
                         THEN AddToken(token_infos,
                                TokenInfo("DocComment", current_line,
                                          current_column))
                         ELSE token_infos
              scanned1 == IF doc
                          THEN Append(scanned,
                                 Span(Offset, Offset + Len(skipped)))
                          ELSE scanned
          IN /\ scanned' = scanned1
             /\ IF text1 = <<>>
                THEN \* the comment ran to the end of the text: break, return false
                     /\ source_text' = text1
                     /\ current_column' = column1
                     /\ set_indent' = set_indent1
                     /\ token_infos' = tokens1
                     /\ line_infos' =
                          [lines1 EXCEPT ![current_line + 1].length = column1]
                     /\ pc' = "close"
                     /\ UNCHANGED current_line
                ELSE IF text1[1] = "\n"
                THEN LET lines2 == [lines1 EXCEPT
                                      ![current_line + 1].length = column1]
                         text2 == DropFront(text1, 1)
                     IN /\ source_text' = text2
                        /\ token_infos' = tokens1
                        /\ IF text2 = <<>>
                           THEN \* the newline ends the text: no empty line
                                /\ line_infos' = lines2
                                /\ current_column' = column1
                                /\ set_indent' = set_indent1
                                /\ pc' = "close"
                                /\ UNCHANGED current_line
                           ELSE /\ line_infos' =
                                     AddLine(lines2,
                                       LineInfo(
                                         NextLineStart(
                                           lines2[current_line + 1], column1),
                                         0, 0))
                                /\ current_line' = Len(lines2)
                                /\ current_column' = 0
                                /\ set_indent' = FALSE
                                /\ pc' = "skip"
                ELSE IF text1[1] \in {" ", "\t"}
                THEN /\ source_text' = DropFront(text1, 1)
                     /\ current_column' = column1 + 1
                     /\ set_indent' = set_indent1
                     /\ token_infos' = tokens1
                     /\ line_infos' = lines1
                     /\ pc' = "skip"
                     /\ UNCHANGED current_line
                ELSE \* default: non-whitespace found, return true
                     /\ source_text' = text1
                     /\ current_column' = column1
                     /\ set_indent' = set_indent1
                     /\ token_infos' = tokens1
                     /\ line_infos' = lines1
                     /\ pc' = "lex"
                     /\ UNCHANGED current_line
  /\ UNCHANGED original
  /\ UNCHANGED context
  /\ UNCHANGED <<source, identifier_infos, identifier_map, int_literals,
                 has_errors, open_groups, emitted, errs>>

(***************************************************************************)
(* Lexer::CloseInvalidOpenGroups on the part of the state it touches:      *)
(* st = [token_infos, open_groups, emitted, has_errors].  Recovery tokens  *)
(* are placed at (line, column), the current scan position.                *)
(***************************************************************************)
\* Faulty variant of CloseOneGroup: the opening token is not told its closing
\* token (line 488 left out).
CloseOneGroup_Unlinked(line, column, st) ==
  LET opening_token == st.open_groups[Len(st.open_groups)]
      opening_kind == st.token_infos[opening_token + 1].kind
      closing_token == Len(st.token_infos)
      added == AddToken(st.token_infos,
                 [TokenInfo(GetClosingSymbol(opening_kind), line, column)
                    EXCEPT !.is_recovery = TRUE])
  IN [token_infos |->
        [added EXCEPT ![closing_token + 1].opening_token = opening_token],
      open_groups |-> SubSeq(st.open_groups, 1, Len(st.open_groups) - 1),
      emitted |-> Append(st.emitted, Diag("MismatchedClosing")),
      has_errors |-> TRUE]

\* Faulty variant of CloseOneGroup: the synthetic token is not marked as a
\* recovery token (line 483 left out).
CloseOneGroup_Unmarked(line, column, st) ==
  LET opening_token == st.open_groups[Len(st.open_groups)]
      opening_kind == st.token_infos[opening_token + 1].kind
      closing_token == Len(st.token_infos)
      added == AddToken(st.token_infos,
                 TokenInfo(GetClosingSymbol(opening_kind), line, column))
  IN [token_infos |->
        [added EXCEPT ![opening_token + 1].closing_token = closing_token,
                      ![closing_token + 1].opening_token = opening_token],
      open_groups |-> SubSeq(st.open_groups, 1, Len(st.open_groups) - 1),
      emitted |-> Append(st.emitted, Diag("MismatchedClosing")),
      has_errors |-> TRUE]

\* One turn of the while loop that closes a group: lines 474-489.
\* Faulty variant of CloseOneGroup: the recovery token is placed at the
\* position of the opening token, not at the scan position.
CloseOneGroup_AtOpening(line, column, st) ==
  LET opening_token == st.open_groups[Len(st.open_groups)]
      opening_info == st.token_infos[opening_token + 1]
      closing_token == Len(st.token_infos)
      added == AddToken(st.token_infos,
                 [TokenInfo(GetClosingSymbol(opening_info.kind),
                            opening_info.token_line, opening_info.column)
                    EXCEPT !.is_recovery = TRUE])
  IN [token_infos |->
        [added EXCEPT ![opening_token + 1].closing_token = closing_token,
                      ![closing_token + 1].opening_token = opening_token],
      open_groups |-> SubSeq(st.open_groups, 1, Len(st.open_groups) - 1),
      emitted |-> Append(st.emitted, Diag("MismatchedClosing")),
      has_errors |-> TRUE]

CloseOneGroup(line, column, st) ==
  LET opening_token == st.open_groups[Len(st.open_groups)]
      opening_kind == st.token_infos[opening_token + 1].kind
      closing_token == Len(st.token_infos)
      added == AddToken(st.token_infos,
                 [TokenInfo(GetClosingSymbol(opening_kind), line, column)
                    EXCEPT !.is_recovery = TRUE])
  IN [token_infos |->
        [added EXCEPT ![opening_token + 1].closing_token = closing_token,
                      ![closing_token + 1].opening_token = opening_token],
      open_groups |-> SubSeq(st.open_groups, 1, Len(st.open_groups) - 1),
      emitted |-> Append(st.emitted, Diag("MismatchedClosing")),
      has_errors |-> TRUE]

\* Faulty variant of CloseInvalidOpenGroups: the early return forgets the
\* Error kind that asks for every group to be closed.
RECURSIVE CloseInvalidOpenGroups_NoSentinel(_, _, _, _)
CloseInvalidOpenGroups_NoSentinel(kind, line, column, st) ==
  IF ~IsClosingSymbol(kind) THEN st
  ELSE IF st.open_groups = <<>> THEN st
  ELSE LET opening_token == st.open_groups[Len(st.open_groups)]
           opening_kind == st.token_infos[opening_token + 1].kind
       IN IF kind = GetClosingSymbol(opening_kind) THEN st
          ELSE CloseInvalidOpenGroups_NoSentinel(kind, line, column,
                 [token_infos |->
                    [AddToken(st.token_infos,
                       [TokenInfo(GetClosingSymbol(opening_kind), line, column)
                          EXCEPT !.is_recovery = TRUE,
                                 !.opening_token = opening_token])
                       EXCEPT ![opening_token + 1].closing_token =
                                 Len(st.token_infos)],
                  open_groups |-> SubSeq(st.open_groups, 1,
                                         Len(st.open_groups) - 1),
                  emitted |-> Append(st.emitted, Diag("MismatchedClosing")),
                  has_errors |-> TRUE])

RECURSIVE CloseInvalidOpenGroups(_, _, _, _)
CloseInvalidOpenGroups(kind, line, column, st) ==
  IF ~IsClosingSymbol(kind) /\ kind # "Error" THEN st
  ELSE IF st.open_groups = <<>> THEN st
  ELSE LET opening_token == st.open_groups[Len(st.open_groups)]
           opening_kind == st.token_infos[opening_token + 1].kind
       IN IF kind = GetClosingSymbol(opening_kind) THEN st
          ELSE CloseInvalidOpenGroups(kind, line, column,
                                      CloseOneGroup(line, column, st))

GroupState ==
  [token_infos |-> token_infos, open_groups |-> open_groups,
   emitted |-> emitted, has_errors |-> has_errors]

\* if (!set_indent) { current_line_info->indent = column; set_indent = true; }
SetIndent(lines, column) ==
  IF set_indent THEN lines
  ELSE [lines EXCEPT ![current_line + 1].indent = column]

\* Faulty variant of RewriteUnmatchedClosing: error_length is not set (line
\* 443 left out).
RewriteUnmatchedClosing_NoLength(infos, token, size) ==
  [infos EXCEPT ![token + 1].kind = "Error"]

\* A closing symbol with no open group is rewritten in place: lines 442-443.
RewriteUnmatchedClosing(infos, token, size) ==
  [infos EXCEPT ![token + 1].kind = "Error",
                ![token + 1].error_length = size]

(***************************************************************************)
(* Lexer::LexSymbolToken, taken when it returns true.                      *)
(***************************************************************************)
LexSymbolToken ==
  /\ pc = "lex"
  /\ MatchSymbol(source_text) # "Error"
  /\ LET kind == MatchSymbol(source_text)
         closed == CloseInvalidOpenGroups(kind, current_line, current_column,
                                          GroupState)
         token == Len(closed.token_infos)
         added == AddToken(closed.token_infos,
                           TokenInfo(kind, current_line, current_column))
         size == Len(GetFixedSpelling(kind))
     IN /\ line_infos' = SetIndent(line_infos, current_column)
        /\ set_indent' = TRUE
        /\ current_column' = current_column + size
        /\ source_text' = DropFront(source_text, size)
        /\ scanned' =
             (scanned \o EmptySpans(token - Len(token_infos), Offset))
               \o <<Span(Offset, Offset + size)>>
        /\ IF IsOpeningSymbol(kind)
           THEN /\ open_groups' = Append(closed.open_groups, token)
                /\ token_infos' = added
                /\ has_errors' = closed.has_errors
                /\ emitted' = closed.emitted
           ELSE IF ~IsClosingSymbol(kind)
           THEN /\ open_groups' = closed.open_groups
                /\ token_infos' = added
                /\ has_errors' = closed.has_errors
                /\ emitted' = closed.emitted
           ELSE IF closed.open_groups = <<>>
           THEN \* no opening symbol to match: the token becomes an Error
                /\ token_infos' = RewriteUnmatchedClosing(added, token, size)
                /\ has_errors' = TRUE
                /\ emitted' = Append(closed.emitted, Diag("UnmatchedClosing"))
                /\ open_groups' = closed.open_groups
           ELSE LET opening_token ==
                      closed.open_groups[Len(closed.open_groups)]
                IN /\ open_groups' = SubSeq(closed.open_groups, 1,
                                            Len(closed.open_groups) - 1)
                   /\ token_infos' =
                        [added EXCEPT
                           ![opening_token + 1].closing_token = token,
                           ![token + 1].opening_token = opening_token]
                   /\ has_errors' = closed.has_errors
                   /\ emitted' = closed.emitted
  /\ pc' = "skip"
  /\ UNCHANGED original
  /\ UNCHANGED context
  /\ UNCHANGED <<source, identifier_infos, identifier_map, int_literals,
                 current_line, errs>>

(***************************************************************************)
(* Lexer::GetOrCreateIdentifier on ids = [infos, map]; map is the set of   *)
(* (text, id) entries of identifier_map.                                   *)
(***************************************************************************)
\* Faulty variant of GetOrCreateIdentifier: a handle is allocated even when
\* the text is already in the map.
GetOrCreateIdentifier_AlwaysNew(text, ids) ==
  [infos |-> Append(ids.infos, text),
   map |-> ids.map \cup {[text |-> text, id |-> Len(ids.infos)]},
   id |-> Len(ids.infos)]

GetOrCreateIdentifier(text, ids) ==
  LET found == {e \in ids.map : e.text = text}
  IN IF found = {}
     THEN [infos |-> Append(ids.infos, text),
           map |-> ids.map \cup {[text |-> text, id |-> Len(ids.infos)]},
           id |-> Len(ids.infos)]
     ELSE [infos |-> ids.infos, map |-> ids.map,
           id |-> (CHOOSE e \in found : TRUE).id]

\* Faulty variant of IdentifierText: only letters are taken, though the text
\* may start with '_'.
IdentifierText_LettersOnly(text) ==
  TakeWhile(text, [i \in 1..Len(text) |-> isAlpha(text[i])])

\* identifier_text of LexKeywordOrIdentifier.
IdentifierText(text) ==
  TakeWhile(text, [i \in 1..Len(text) |-> IsWordChar(text[i])])

(***************************************************************************)
(* Lexer::LexKeywordOrIdentifier, taken when LexSymbolToken returned false *)
(* and it returns true.                                                    *)
(***************************************************************************)
LexKeywordOrIdentifier ==
  /\ pc = "lex"
  /\ MatchSymbol(source_text) = "Error"
  /\ isAlpha(source_text[1]) \/ source_text[1] = "_"
  /\ LET identifier_text == IdentifierText(source_text)
         kind == MatchKeyword(identifier_text)
         got == GetOrCreateIdentifier(identifier_text,
                  [infos |-> identifier_infos, map |-> identifier_map])
     IN /\ line_infos' = SetIndent(line_infos, current_column)
        /\ set_indent' = TRUE
        /\ current_column' = current_column + Len(identifier_text)
        /\ source_text' = DropFront(source_text, Len(identifier_text))
        /\ scanned' =
             Append(scanned, Span(Offset, Offset + Len(identifier_text)))
        /\ IF kind # "Error"
           THEN /\ token_infos' =
                     AddToken(token_infos,
                              TokenInfo(kind, current_line, current_column))
                /\ UNCHANGED <<identifier_infos, identifier_map>>
           ELSE /\ token_infos' =
                     AddToken(token_infos,
                        [TokenInfo("Identifier", current_line, current_column)
                           EXCEPT !.id = got.id])
                /\ identifier_infos' = got.infos
                /\ identifier_map' = got.map
  /\ pc' = "skip"
  /\ UNCHANGED original
  /\ UNCHANGED context
  /\ UNCHANGED <<source, int_literals, has_errors, current_line, open_groups,
                 emitted, errs>>

(***************************************************************************)
(* TakeLeadingIntegerLiteral.                                              *)
(***************************************************************************)
TakeLeadingIntegerLiteral(text) ==
  IF text = <<>> \/ ~isDigit(text[1]) THEN <<>>
  ELSE TakeWhile(text, [i \in 1..Len(text) |-> IsWordChar(text[i])])

(***************************************************************************)
(* llvm::StringRef::getAsInteger(radix, APInt&): fails (returns true) on   *)
(* an empty string or on a character that is no digit of the radix.        *)
(***************************************************************************)
DigitSeq == <<"0", "1", "2", "3", "4", "5", "6", "7", "8", "9">>

UpperSeq ==
  <<"A", "B", "C", "D", "E", "F", "G", "H", "I", "J", "K", "L", "M",
    "N", "O", "P", "Q", "R", "S", "T", "U", "V", "W", "X", "Y", "Z">>

LowerSeq ==
  <<"a", "b", "c", "d", "e", "f", "g", "h", "i", "j", "k", "l", "m",
    "n", "o", "p", "q", "r", "s", "t", "u", "v", "w", "x", "y", "z">>

IndexOf(seq, c) == CHOOSE i \in 1..Len(seq) : seq[i] = c

DigitValue(c) ==
  IF c \in Digits THEN IndexOf(DigitSeq, c) - 1
  ELSE IF c \in UpperLetters THEN IndexOf(UpperSeq, c) + 9
  ELSE IF c \in LowerLetters THEN IndexOf(LowerSeq, c) + 9
  ELSE 36

RECURSIVE ParseDigits(_, _, _)
ParseDigits(text, radix, acc) ==
  IF text = <<>> THEN acc
  ELSE ParseDigits(Tail(text), radix, acc * radix + DigitValue(text[1]))

\* Faulty variant of GetAsInteger: the digits are read in radix 10 whatever
\* the radix asked for.
GetAsInteger_AlwaysDecimal(text, radix) ==
  IF text = <<>> \/ \E i \in 1..Len(text) : DigitValue(text[i]) >= radix
  THEN [failed |-> TRUE, value |-> 0]
  ELSE [failed |-> FALSE, value |-> ParseDigits(text, 10, 0)]

GetAsInteger(text, radix) ==
  IF text = <<>> \/ \E i \in 1..Len(text) : DigitValue(text[i]) >= radix
  THEN [failed |-> TRUE, value |-> 0]
  ELSE [failed |-> FALSE, value |-> ParseDigits(text, radix, 0)]

(***************************************************************************)
(* Lexer::CheckDigitSeparatorPlacement: TRUE when it diagnoses irregular   *)
(* digit separators.                                                       *)
(***************************************************************************)
RECURSIVE PlacementLoop(_, _, _, _)
PlacementLoop(text, stride, pos, remaining_digit_separators) ==
  IF pos >= stride
  THEN IF text[pos - stride + 1] # "_" THEN TRUE
       ELSE PlacementLoop(text, stride, pos - stride,
                          remaining_digit_separators - 1)
  ELSE remaining_digit_separators # 0

\* Faulty variant of CheckDigitSeparatorPlacement: the hexadecimal stride is
\* used for every radix (line 254).
CheckDigitSeparatorPlacement_OneStride(text, radix, num_digit_separators) ==
  PlacementLoop(text, 5, Len(text), num_digit_separators)

CheckDigitSeparatorPlacement(text, radix, num_digit_separators) ==
  PlacementLoop(text, IF radix = 10 THEN 4 ELSE 5, Len(text),
                num_digit_separators)

(***************************************************************************)
(* Lexer::CheckDigitSequence.  The result carries, next to ok and          *)
(* has_digit_separators, the diagnostics it emitted in order and whether   *)
(* it set buffer.has_errors.                                               *)
(***************************************************************************)
\* Faulty variant of ValidDigits: lower-case a-f are hexadecimal digits too.
ValidDigits_LowerHex(radix) ==
  IF radix = 2 THEN {"0", "1"}
  ELSE IF radix = 10 THEN Digits
  ELSE Digits \cup {"A", "B", "C", "D", "E", "F"}
              \cup {"a", "b", "c", "d", "e", "f"}

ValidDigits(radix) ==
  IF radix = 2 THEN {"0", "1"}
  ELSE IF radix = 10 THEN Digits
  ELSE Digits \cup {"A", "B", "C", "D", "E", "F"}

RECURSIVE DigitLoop(_, _, _, _, _, _)
DigitLoop(text, radix, i, num_digit_separators, out, err) ==
  IF i = Len(text)
  THEN LET irregular ==
             /\ num_digit_separators # 0
             /\ radix # 2
             /\ CheckDigitSeparatorPlacement(text, radix, num_digit_separators)
       IN [ok |-> TRUE,
           has_digit_separators |-> num_digit_separators # 0,
           emitted |-> IF irregular
                       THEN Append(out, [Diag("IrregularDigitSeparators")
                                           EXCEPT !.radix = radix])
                       ELSE out,
           has_errors |-> err \/ irregular]
  ELSE LET c == text[i + 1]
       IN IF c \in ValidDigits(radix)
          THEN DigitLoop(text, radix, i + 1, num_digit_separators, out, err)
          ELSE IF c = "_"
          THEN IF i = 0 \/ text[i] = "_" \/ i + 1 = Len(text)
               THEN DigitLoop(text, radix, i + 1, num_digit_separators + 1,
                              Append(out, Diag("InvalidDigitSeparator")), TRUE)
               ELSE DigitLoop(text, radix, i + 1, num_digit_separators + 1,
                              out, err)
          ELSE [ok |-> FALSE, has_digit_separators |-> FALSE,
                emitted |-> Append(out, [Diag("InvalidDigit")
                                           EXCEPT !.digit = c,
                                                  !.radix = radix]),
                has_errors |-> err]

\* Faulty variant of CheckDigitSequence: the empty text is not rejected
\* (lines 278-282 left out).
CheckDigitSequence_NoEmptyCheck(text, radix) ==
  DigitLoop(text, radix, 0, 0, <<>>, FALSE)

CheckDigitSequence(text, radix) ==
  IF text = <<>>
  THEN [ok |-> FALSE, has_digit_separators |-> FALSE,
        emitted |-> <<Diag("EmptyDigitSequence")>>, has_errors |-> FALSE]
  ELSE DigitLoop(text, radix, 0, 0, <<>>, FALSE)

\* std::remove_copy_if(..., c == '_').
IsNoSeparator(c) == c # "_"

RemoveSeparators(text) == SelectSeq(text, IsNoSeparator)

\* Faulty variant of AddErrorTokenAndContinueLexing: buffer.has_errors is not
\* set (line 352 left out).
AddErrorTokenAndContinueLexing_NoFlag(st, int_column, size) ==
  [token_infos |-> AddToken(st.token_infos,
                    [TokenInfo("Error", current_line, int_column)
                       EXCEPT !.error_length = size]),
   has_errors |-> st.has_errors]

\* The lambda add_error_token_and_continue_lexing of LexIntegerLiteral, on
\* st = [token_infos, has_errors].
AddErrorTokenAndContinueLexing(st, int_column, size) ==
  [token_infos |-> AddToken(st.token_infos,
                    [TokenInfo("Error", current_line, int_column)
                       EXCEPT !.error_length = size]),
   has_errors |-> TRUE]

\* The radix and digit text LexIntegerLiteral derives from the span:
\* lines 357-371.
HasBasePrefix(int_text) == Len(int_text) >= 2 /\ int_text[1] = "0"

\* Faulty variant of UnknownBase: a digit after the leading 0 is taken for a
\* decimal literal.
UnknownBase_DigitAllowed(int_text) ==
  HasBasePrefix(int_text) /\ int_text[2] \notin {"x", "b"} \cup Digits

UnknownBase(int_text) ==
  HasBasePrefix(int_text) /\ int_text[2] \notin {"x", "b"}

LiteralRadix(int_text) ==
  IF HasBasePrefix(int_text) /\ int_text[2] = "x" THEN 16
  ELSE IF HasBasePrefix(int_text) /\ int_text[2] = "b" THEN 2
  ELSE 10

LiteralDigits(int_text) ==
  IF LiteralRadix(int_text) = 10 THEN int_text ELSE DropFront(int_text, 2)

(***************************************************************************)
(* Lexer::LexIntegerLiteral, taken when the two strategies before it       *)
(* returned false and it returns true.  llvm_unreachable either aborts     *)
(* (assertions enabled) or is undefined behaviour: the build then goes on  *)
(* with the default-constructed int_value.                                 *)
(***************************************************************************)
LexIntegerLiteral ==
  /\ pc = "lex"
  /\ MatchSymbol(source_text) = "Error"
  /\ ~(isAlpha(source_text[1]) \/ source_text[1] = "_")
  /\ TakeLeadingIntegerLiteral(source_text) # <<>>
  /\ LET int_text == TakeLeadingIntegerLiteral(source_text)
         int_column == current_column
         unknown == UnknownBase(int_text)
         radix == LiteralRadix(int_text)
         digits == LiteralDigits(int_text)
         result == CheckDigitSequence(digits, radix)
         parsed == IF result.has_digit_separators
                   THEN GetAsInteger(RemoveSeparators(digits), radix)
                   ELSE GetAsInteger(digits, radix)
         error == AddErrorTokenAndContinueLexing(
                    [token_infos |-> token_infos, has_errors |-> has_errors],
                    int_column, Len(int_text))
         literal == [TokenInfo("IntegerLiteral", current_line, int_column)
                       EXCEPT !.literal_index = Len(int_literals)]
         span == Span(Offset, Offset + Len(int_text))
     IN /\ current_column' = current_column + Len(int_text)
        /\ source_text' = DropFront(source_text, Len(int_text))
        /\ line_infos' = SetIndent(line_infos, int_column)
        /\ set_indent' = TRUE
        /\ IF unknown
           THEN /\ emitted' = Append(emitted, Diag("UnknownBaseSpecifier"))
                /\ token_infos' = error.token_infos
                /\ scanned' = Append(scanned, span)
                /\ has_errors' = error.has_errors
                /\ pc' = "skip"
                /\ UNCHANGED int_literals
           ELSE /\ emitted' = emitted \o result.emitted
                /\ IF ~result.ok
                   THEN /\ token_infos' = error.token_infos
                        /\ scanned' = Append(scanned, span)
                        /\ has_errors' = error.has_errors
                        /\ pc' = "skip"
                        /\ UNCHANGED int_literals
                   ELSE /\ has_errors' = (has_errors \/ result.has_errors)
                        /\ IF parsed.failed
                           THEN \/ /\ pc' = "aborted"
                                   /\ UNCHANGED <<token_infos, int_literals,
                                                  scanned>>
                                \/ /\ pc' = "skip"
                                   /\ token_infos' =
                                        AddToken(token_infos, literal)
                                   /\ scanned' = Append(scanned, span)
                                   /\ int_literals' = Append(int_literals, 0)
                           ELSE /\ pc' = "skip"
                                /\ token_infos' = AddToken(token_infos, literal)
                                /\ scanned' = Append(scanned, span)
                                /\ int_literals' =
                                     Append(int_literals, parsed.value)
  /\ UNCHANGED original
  /\ UNCHANGED context
  /\ UNCHANGED <<source, identifier_infos, identifier_map, current_line,
                 open_groups, errs>>

(***************************************************************************)
(* Lexer::LexError, taken when all three strategies returned false.        *)
(***************************************************************************)
IsErrorChar(c) ==
  /\ ~isAlnum(c)
  /\ c \notin {"_", "\t", "\n"}
  /\ \A i \in 1..Len(SymbolTokens) : ~StartsWith(<<c>>, SymbolTokens[i].spelling)

ErrorText(text) ==
  LET taken == TakeWhile(text, [i \in 1..Len(text) |-> IsErrorChar(text[i])])
  IN IF taken = <<>> THEN TakeFront(text, 1) ELSE taken

LexError ==
  /\ pc = "lex"
  /\ MatchSymbol(source_text) = "Error"
  /\ ~(isAlpha(source_text[1]) \/ source_text[1] = "_")
  /\ TakeLeadingIntegerLiteral(source_text) = <<>>
  /\ LET error_text == ErrorText(source_text)
     IN /\ token_infos' =
             AddToken(token_infos,
                [TokenInfo("Error", current_line, current_column)
                   EXCEPT !.error_length = Len(error_text)])
        /\ scanned' = Append(scanned, Span(Offset, Offset + Len(error_text)))
        /\ errs' = Append(errs, [line |-> current_line + 1,
                                 column |-> current_column + 1])
        /\ current_column' = current_column + Len(error_text)
        /\ source_text' = DropFront(source_text, Len(error_text))
        /\ has_errors' = TRUE
  /\ pc' = "skip"
  /\ UNCHANGED original
  /\ UNCHANGED context
  /\ UNCHANGED <<source, line_infos, identifier_infos, identifier_map,
                 int_literals, current_line, set_indent, open_groups, emitted>>

(***************************************************************************)
(* The end of TokenizedBuffer::Lex: CloseInvalidOpenGroups(Error), return. *)
(***************************************************************************)
Finish ==
  /\ pc = "close"
  /\ LET closed == CloseInvalidOpenGroups("Error", current_line,
                                          current_column, GroupState)
     IN /\ token_infos' = closed.token_infos
        /\ open_groups' = closed.open_groups
        /\ emitted' = closed.emitted
        /\ has_errors' = closed.has_errors
        /\ scanned' =
             scanned \o EmptySpans(Len(closed.token_infos) - Len(token_infos),
                                   Offset)
  /\ pc' = "done"
  /\ UNCHANGED original
  /\ UNCHANGED context
  /\ UNCHANGED <<source, source_text, line_infos, identifier_infos,
                 identifier_map, int_literals, current_line, current_column,
                 set_indent, errs>>

Next ==
  \/ SkipWhitespace
  \/ LexSymbolToken
  \/ LexKeywordOrIdentifier
  \/ LexIntegerLiteral
  \/ LexError
  \/ Finish

Spec == Init /\ [][Next]_vars

(***************************************************************************)
(* Queries on the buffer.                                                  *)
(***************************************************************************)
GetIdentifierText(identifier) == identifier_infos[identifier + 1]

\* Faulty variant of GetTokenText: the text of an integer literal is looked
\* for at the start of its line, the column forgotten.
GetTokenText_LineStart(token) ==
  LET token_info == token_infos[token + 1]
      fixed_spelling == GetFixedSpelling(token_info.kind)
      line_info == line_infos[token_info.token_line + 1]
      token_start == line_info.start + token_info.column
  IN IF fixed_spelling # <<>> THEN fixed_spelling
     ELSE IF token_info.kind = "Error"
     THEN Substr(source, token_start, token_info.error_length)
     ELSE IF token_info.kind = "DocComment"
     THEN Slice(source, token_start, line_info.start + line_info.length)
     ELSE IF token_info.kind = "IntegerLiteral"
     THEN TakeLeadingIntegerLiteral(DropFront(source, line_info.start))
     ELSE GetIdentifierText(token_info.id)

\* Faulty variant of GetTokenText: the end of a doc comment is taken to be the
\* line's length, not the offset of the line's end.
GetTokenText_LineLength(token) ==
  LET token_info == token_infos[token + 1]
      fixed_spelling == GetFixedSpelling(token_info.kind)
      line_info == line_infos[token_info.token_line + 1]
      token_start == line_info.start + token_info.column
  IN IF fixed_spelling # <<>> THEN fixed_spelling
     ELSE IF token_info.kind = "Error"
     THEN Substr(source, token_start, token_info.error_length)
     ELSE IF token_info.kind = "DocComment"
     THEN Slice(source, token_start, line_info.length)
     ELSE IF token_info.kind = "IntegerLiteral"
     THEN TakeLeadingIntegerLiteral(DropFront(source, token_start))
     ELSE GetIdentifierText(token_info.id)

GetTokenText(token) ==
  LET token_info == token_infos[token + 1]
      fixed_spelling == GetFixedSpelling(token_info.kind)
      line_info == line_infos[token_info.token_line + 1]
      token_start == line_info.start + token_info.column
  IN IF fixed_spelling # <<>> THEN fixed_spelling
     ELSE IF token_info.kind = "Error"
     THEN Substr(source, token_start, token_info.error_length)
     ELSE IF token_info.kind = "DocComment"
     THEN Slice(source, token_start, line_info.start + line_info.length)
     ELSE IF token_info.kind = "IntegerLiteral"
     THEN TakeLeadingIntegerLiteral(DropFront(source, token_start))
     ELSE GetIdentifierText(token_info.id)

(***************************************************************************)
(* The round trip: the text rebuilt from a finished buffer, GetTokenText   *)
(* of each token in order joined by single spaces, is handed to Lex again. *)
(* Relex starts that second call and keeps the first call's outcome.       *)
(***************************************************************************)
TokenKinds == [i \in 1..Len(token_infos) |-> token_infos[i].kind]

TokenTexts == [i \in 1..Len(token_infos) |-> GetTokenText(i - 1)]

RECURSIVE JoinWithSpaces(_)
JoinWithSpaces(texts) ==
  IF texts = <<>> THEN <<>>
  ELSE IF Len(texts) = 1 THEN texts[1]
  ELSE (texts[1] \o <<" ">>) \o JoinWithSpaces(Tail(texts))

Relex ==
  /\ pc = "done"
  /\ ~original.lexed
  /\ original' = FirstLexing(TRUE, source, TokenKinds, has_errors)
  /\ source' = JoinWithSpaces(TokenTexts)
  /\ source_text' = source'
  /\ token_infos' = <<>>
  /\ line_infos' = <<LineInfo(0, 0, 0)>>
  /\ identifier_infos' = <<>>
  /\ identifier_map' = {}
  /\ int_literals' = <<>>
  /\ has_errors' = FALSE
  /\ current_line' = 0
  /\ current_column' = 0
  /\ set_indent' = FALSE
  /\ open_groups' = <<>>
  /\ emitted' = <<>>
  /\ errs' = <<>>
  /\ scanned' = <<>>
  /\ pc' = "skip"
  /\ UNCHANGED context

RoundTripNext == Next \/ Relex

RoundTrip == Init /\ [][RoundTripNext]_vars

(***************************************************************************)
(* Semantics of function declarations and definitions.  The handlers are   *)
(* called in the order of the parse tree; each returns a bool, kept in     *)
(* context.result, and the traversal stops at the first false.             *)
(***************************************************************************)
lexing ==
  <<source, source_text, token_infos, line_infos, identifier_infos,
    identifier_map, int_literals, has_errors, current_line, current_column,
    set_indent, open_groups, emitted, errs, scanned, original, pc>>

Peek(stack) == stack[Len(stack)]

PopBack(stack) == SubSeq(stack, 1, Len(stack) - 1)

\* SemanticsContext: the operations the handlers call.
is_current_position_reachable(ctx) ==
  Peek(ctx.node_block_stack) # Unreachable

AddNodeToBlock(ctx, block, node) ==
  [ctx EXCEPT !.nodes = Append(@, node),
              !.node_blocks[block + 1] = Append(@, Len(ctx.nodes))]

AddNode(ctx, node) == AddNodeToBlock(ctx, Peek(ctx.node_block_stack), node)

Emit(ctx, diagnostic) == [ctx EXCEPT !.emitted = Append(@, diagnostic)]

TODO(ctx, label) ==
  [Emit(ctx, "SemanticsTodo") EXCEPT !.result = FALSE]

PushScope(ctx) == [ctx EXCEPT !.scope_stack = Append(@, {})]

PopScope(ctx) == [ctx EXCEPT !.scope_stack = PopBack(@)]

AddNameToLookup(ctx, name_id, target_id) ==
  [ctx EXCEPT !.scope_stack[Len(ctx.scope_stack)] =
                @ \cup {[name_id |-> name_id, target_id |-> target_id]}]

PushNodeBlock(ctx) ==
  [ctx EXCEPT !.node_blocks = Append(@, <<>>),
              !.node_block_stack = Append(@, Len(ctx.node_blocks))]

PopNodeBlock(ctx) == [ctx EXCEPT !.node_block_stack = PopBack(@)]

PushUnreachable(ctx) ==
  [ctx EXCEPT !.node_block_stack = Append(@, Unreachable)]

PushNode(ctx, kind, id) ==
  [ctx EXCEPT !.node_stack = Append(@, StackEntry(kind, id))]

PopNode(ctx) == [ctx EXCEPT !.node_stack = PopBack(@)]

PushDeclarationName(ctx) ==
  [ctx EXCEPT !.declaration_name_stack =
                Append(@, [unresolved_name_id |-> NoVal])]

PopDeclarationName(ctx) ==
  [ctx EXCEPT !.declaration_name_stack = PopBack(@)]

ExpressionAsType(ctx, type_node_id) == type_node_id

Returns(ctx, value) == [ctx EXCEPT !.result = value]

TopKind(ctx) ==
  IF ctx.node_stack = <<>> THEN "File" ELSE Peek(ctx.node_stack).kind

\* return SemanticsHandleFunctionDeclaration(context, parse_node)
SemanticsHandleFunctionDeclaration ==
  /\ context.result
  /\ TopKind(context) \in {"ParameterList", "ReturnType"}
  /\ context' = TODO(context, "HandleFunctionDeclaration")
  /\ UNCHANGED lexing

\* Faulty variant of NeedsReturnValue: no function needs a return value.
NeedsReturnValue_Never(ctx, function_id) == FALSE

\* GetFunction(function_id).return_type_id.is_valid()
NeedsReturnValue(ctx, function_id) ==
  ctx.functions[function_id + 1].return_type_id # InvalidType

\* The context after SemanticsHandleFunctionDefinition.
FunctionDefinition(ctx) ==
  LET function_id == Peek(ctx.node_stack).id
      popped == PopNode(ctx)
      closed ==
        IF is_current_position_reachable(popped)
        THEN IF NeedsReturnValue(popped, function_id)
             THEN Emit(popped, "MissingReturnStatement")
             ELSE AddNode(popped,
                          SemanticsNode("Return", "FunctionDefinition", <<>>))
        ELSE popped
      unscoped ==
        [closed EXCEPT !.return_scope_stack = PopBack(@)]
  IN Returns(PopNodeBlock(PopScope(unscoped)), TRUE)

SemanticsHandleFunctionDefinition ==
  /\ context.result
  /\ TopKind(context) = "FunctionDefinitionStart"
  /\ context' = FunctionDefinition(context)
  /\ UNCHANGED lexing

\* for (auto ref_id : GetNodeBlock(param_refs_id)) AddNameToLookup(...)
RECURSIVE AddParameters(_, _)
AddParameters(ctx, refs) ==
  IF refs = <<>> THEN ctx
  ELSE LET ref == ctx.nodes[Head(refs) + 1]
       IN AddParameters(AddNameToLookup(ctx, ref.args[1], ref.args[2]),
                        Tail(refs))

\* The context after SemanticsHandleFunctionDefinitionStart.  The type that
\* CanonicalizeType adds for the implicit return is not part of the model.
FunctionDefinitionStart(ctx) ==
  LET typed == TopKind(ctx) = "ReturnType"
      return_type_id == IF typed THEN Peek(ctx.node_stack).id ELSE InvalidType
      untyped == IF typed THEN PopNode(ctx) ELSE ctx
      param_refs_id == Peek(untyped.node_stack).id
      unlisted == PopNode(untyped)
      name_context == Peek(unlisted.declaration_name_stack)
      unnamed == PopNode(PopDeclarationName(unlisted))
      outer_block == Peek(unnamed.node_block_stack)
      entered == PushNodeBlock(unnamed)
      function_id == Len(entered.functions)
      added ==
        [entered EXCEPT !.functions =
           Append(@, [name_id |-> name_context.unresolved_name_id,
                      param_refs_id |-> param_refs_id,
                      return_type_id |-> return_type_id,
                      body_block_ids |-> <<Peek(entered.node_block_stack)>>])]
      decl_id == Len(added.nodes)
      declared ==
        AddNodeToBlock(added, outer_block,
                       SemanticsNode("FunctionDeclaration",
                                     "FunctionIntroducer", <<function_id>>))
      named ==
        AddNameToLookup(declared, name_context.unresolved_name_id, decl_id)
      scoped ==
        AddParameters(PushScope(named), named.node_blocks[param_refs_id + 1])
      returning ==
        [scoped EXCEPT !.return_scope_stack = Append(@, decl_id)]
  IN Returns(PushNode(returning, "FunctionDefinitionStart", function_id),
             TRUE)

SemanticsHandleFunctionDefinitionStart ==
  /\ context.result
  /\ TopKind(context) \in {"ParameterList", "ReturnType"}
  /\ context' = FunctionDefinitionStart(context)
  /\ UNCHANGED lexing

\* Functions are declared at file level, MaxFunctions of them at most.
SemanticsHandleFunctionIntroducer ==
  /\ context.result
  /\ TopKind(context) = "File"
  /\ Len(context.functions) < MaxFunctions
  /\ context' =
       Returns(PushDeclarationName(
                 PushNode(context, "FunctionIntroducer", NoVal)), TRUE)
  /\ UNCHANGED lexing

SemanticsHandleReturnType ==
  /\ context.result
  /\ TopKind(context) = "TypeExpression"
  /\ LET type_node_id == Peek(context.node_stack).id
         cast_node_id == ExpressionAsType(context, type_node_id)
     IN context' =
          Returns(PushNode(PopNode(context), "ReturnType", cast_node_id),
                  TRUE)
  /\ UNCHANGED lexing

\* The nodes of a parameter list of a number of parameters: for each
\* parameter its storage, then the binding of its name (0, 1, ... in that
\* order) to the storage.
ParameterNodes(ctx, count) ==
  [n \in 1..(count + count) |->
     IF n % 2 = 1
     THEN SemanticsNode("VarStorage", "PatternBinding", <<>>)
     ELSE SemanticsNode("BindName", "PatternBinding",
                        <<(n \div 2) - 1, Len(ctx.nodes) + n - 2>>)]

\* What the handlers of the declared name and of the parameter list leave
\* for SemanticsHandleFunctionDefinitionStart: the name in the declaration
\* name context, and on the node stack the block of the parameters.
HandleSignature ==
  /\ context.result
  /\ TopKind(context) = "FunctionIntroducer"
  /\ \E count \in 0..MaxParameters :
       LET refs == [j \in 1..count |-> Len(context.nodes) + j + j - 1]
           listed ==
             [context EXCEPT
                !.nodes = @ \o ParameterNodes(context, count),
                !.node_blocks = Append(@, refs),
                !.declaration_name_stack[Len(context.declaration_name_stack)] =
                  [unresolved_name_id |-> Len(context.functions)]]
       IN context' = PushNode(listed, "ParameterList",
                              Len(context.node_blocks))
  /\ UNCHANGED lexing

\* What the handlers of a return type expression leave for
\* SemanticsHandleReturnType: the node of the type on the node stack.
HandleTypeExpression ==
  /\ context.result
  /\ TopKind(context) = "ParameterList"
  /\ context' = PushNode(context, "TypeExpression", Len(context.nodes))
  /\ UNCHANGED lexing

\* A statement of the body in a reachable position: an expression statement
\* adds its node, a return statement adds its node and leaves the position
\* unreachable.
HandleStatement ==
  /\ context.result
  /\ TopKind(context) = "FunctionDefinitionStart"
  /\ is_current_position_reachable(context)
  /\ Len(context.node_blocks[Peek(context.node_block_stack) + 1])
       < MaxStatements
  /\ \/ context' =
          AddNode(context,
                  SemanticsNode("ExpressionStatement", "ExpressionStatement",
                                <<>>))
     \/ context' =
          PushUnreachable(PopNodeBlock(
            AddNode(context,
                    SemanticsNode("Return", "ReturnStatement", <<>>))))
  /\ UNCHANGED lexing

SemanticsNext ==
  \/ SemanticsHandleFunctionIntroducer
  \/ HandleSignature
  \/ HandleTypeExpression
  \/ SemanticsHandleReturnType
  \/ SemanticsHandleFunctionDeclaration
  \/ SemanticsHandleFunctionDefinitionStart
  \/ HandleStatement
  \/ SemanticsHandleFunctionDefinition

\* No source text is lexed while the handlers run.
SemanticsInit == Init /\ source = <<>>

Semantics == SemanticsInit /\ [][SemanticsNext]_vars

(***************************************************************************)
(* Vocabulary of the properties.                                           *)
(***************************************************************************)
Tokens == 0..(Len(token_infos) - 1)

Kind(token) == token_infos[token + 1].kind

\* The source bytes the scanner consumed for a token.
ScannedText(token) ==
  SubSeq(source, scanned[token + 1].start + 1, scanned[token + 1].stop)

Repeat(n, d) == [i \in 1..n |-> d]

EmittedKinds == [i \in 1..Len(emitted) |-> emitted[i].kind]

Returned == pc = "done"

(***************************************************************************)
(* C1.  Lex never aborts: the llvm_unreachable("should never fail") of     *)
(* LexIntegerLiteral is never reached, because whenever CheckDigitSequence *)
(* accepts a digit text, the text without its '_' is non-empty and parses  *)
(* as an integer of the radix.                                             *)
(* Refuted by the code: "0x_" is accepted and leaves nothing to parse.     *)
(***************************************************************************)
C1_LexNeverAborts ==
  /\ pc # "aborted"
  /\ \A int_text \in {TakeLeadingIntegerLiteral(source_text)} :
       (pc = "lex" /\ int_text # <<>> /\ ~UnknownBase(int_text)) =>
         LET digits == LiteralDigits(int_text)
             radix == LiteralRadix(int_text)
             cleaned == RemoveSeparators(digits)
         IN CheckDigitSequence(digits, radix).ok =>
              cleaned # <<>> /\ ~GetAsInteger(cleaned, radix).failed

(***************************************************************************)
(* C2.  Lex terminates: every token-producing step of the drive loop and   *)
(* every iteration of SkipWhitespace that does not return shortens the     *)
(* remaining source text by at least one byte.  Hence every step of Lex    *)
(* lowers the variant (remaining bytes, then position in the loop), which  *)
(* is a natural number: no run takes infinitely many steps.                *)
(***************************************************************************)
C2_Progress ==
  /\ pc = "lex" => Len(source_text') < Len(source_text)
  /\ (pc = "skip" /\ pc' = "skip") => Len(source_text') < Len(source_text)

C2_Variant ==
  3 * Len(source_text)
    + (CASE pc = "skip" -> 2 [] pc \in {"lex", "close"} -> 1 [] OTHER -> 0)

C2_LexTerminates == [][C2_Progress /\ C2_Variant' < C2_Variant]_vars

\* Lex returned after several iterations of every kind: spaces, a newline, two
\* lexed tokens and a fallback error.
C2_Witness ==
  /\ Returned
  /\ Len(line_infos) >= 2
  /\ Len(token_infos) >= 2
  /\ errs # <<>>

(***************************************************************************)
(* C3.  When Lex returns, every token of opening-symbol kind has a         *)
(* closing_token of closing-symbol kind whose opening_token refers back to *)
(* it, and every token of closing-symbol kind (real or recovery) has an    *)
(* opening_token whose closing_token refers back to it.                    *)
(***************************************************************************)
C3_GroupsMatched ==
  Returned =>
    \A t \in Tokens :
      /\ IsOpeningSymbol(Kind(t)) =>
           LET c == token_infos[t + 1].closing_token
           IN /\ c \in Tokens
              /\ IsClosingSymbol(Kind(c))
              /\ token_infos[c + 1].opening_token = t
      /\ IsClosingSymbol(Kind(t)) =>
           LET o == token_infos[t + 1].opening_token
           IN /\ o \in Tokens
              /\ IsOpeningSymbol(Kind(o))
              /\ token_infos[o + 1].closing_token = t

\* A finished buffer with a group closed by a real closing symbol and a group
\* closed by a recovery token.
C3_Witness ==
  /\ Returned
  /\ \E t \in Tokens : IsClosingSymbol(Kind(t)) /\ ~token_infos[t + 1].is_recovery
  /\ \E t \in Tokens : IsClosingSymbol(Kind(t)) /\ token_infos[t + 1].is_recovery

(***************************************************************************)
(* C4.  has_errors is monotonic: no step changes it from true to false;    *)
(* and after every step that emitted at least one diagnostic to the        *)
(* emitter, has_errors is true.                                            *)
(***************************************************************************)
C4_Step ==
  /\ has_errors => has_errors'
  /\ Len(emitted') > Len(emitted) => has_errors'

C4_ErrorFlagMonotonic == [][C4_Step]_vars

\* A diagnostic that CheckDigitSequence emits without setting the flag itself
\* has been emitted, and a later step has run with the flag set.
C4_Witness ==
  /\ has_errors
  /\ \E i \in 1..Len(emitted) :
       emitted[i].kind \in {"EmptyDigitSequence", "InvalidDigit"}
  /\ \E i \in 1..Len(emitted) : emitted[i].kind = "MismatchedClosing"
  /\ Returned

(***************************************************************************)
(* C5.  When Lex returns, has_errors is true if and only if at least one   *)
(* diagnostic was emitted to the diagnostic emitter during the run.        *)
(* Refuted by the code: LexError sets the flag and writes to llvm::errs()  *)
(* instead of emitting UnrecognizedCharacters.                             *)
(***************************************************************************)
C5_FlagIffDiagnostic ==
  Returned => (has_errors <=> emitted # <<>>)

(***************************************************************************)
(* C6.  In the finished buffer, GetTokenText of every Identifier,          *)
(* IntegerLiteral, Error and DocComment token is exactly the source        *)
(* substring the scanner consumed for that token, which starts at byte     *)
(* offset line.start + column.                                             *)
(***************************************************************************)
C6_TokenTextIsSource ==
  Returned =>
    \A t \in Tokens :
      Kind(t) \in {"Identifier", "IntegerLiteral", "Error", "DocComment"} =>
        /\ GetTokenText(t) = ScannedText(t)
        /\ line_infos[token_infos[t + 1].token_line + 1].start
             + token_infos[t + 1].column = scanned[t + 1].start

\* A finished buffer holding a doc comment on a line after the first.
C6_Witness ==
  /\ Returned
  /\ \E t \in Tokens :
       /\ Kind(t) = "DocComment"
       /\ token_infos[t + 1].token_line > 0
       /\ GetTokenText(t) = <<"/", "/", "/">>

(***************************************************************************)
(* C7.  Identifier interning is a function of spelling: two Identifier     *)
(* tokens carry the same handle if and only if their spellings are equal;  *)
(* handles are allocated densely, 0, 1, 2, ..., in order of first          *)
(* occurrence; GetIdentifierText of a handle is the spelling that created  *)
(* it; text that is exactly a keyword spelling gets the keyword kind and   *)
(* adds nothing to the identifier table.                                   *)
(***************************************************************************)
IdentifierTokens == {t \in Tokens : Kind(t) = "Identifier"}

C7_InterningBySpelling ==
  /\ \A t1, t2 \in IdentifierTokens :
       (token_infos[t1 + 1].id = token_infos[t2 + 1].id)
         <=> (ScannedText(t1) = ScannedText(t2))
  /\ \A t \in IdentifierTokens :
       LET earlier == {ScannedText(u) : u \in {v \in IdentifierTokens : v < t}}
       IN /\ ScannedText(t) \notin earlier =>
               token_infos[t + 1].id = Cardinality(earlier)
          /\ GetIdentifierText(token_infos[t + 1].id) = ScannedText(t)
  /\ Len(identifier_infos) =
       Cardinality({ScannedText(t) : t \in IdentifierTokens})
  /\ \A t \in Tokens :
       MatchKeyword(ScannedText(t)) # "Error" =>
         Kind(t) = MatchKeyword(ScannedText(t))
  /\ \A i \in 1..Len(identifier_infos) :
       MatchKeyword(identifier_infos[i]) = "Error"

\* A spelling, a second spelling, the first spelling again, and somewhere a
\* keyword.
C7_Witness ==
  \/ \E t1, t2, t3 \in IdentifierTokens :
       /\ t1 < t2 /\ t2 < t3
       /\ token_infos[t1 + 1].id = token_infos[t3 + 1].id
       /\ token_infos[t1 + 1].id # token_infos[t2 + 1].id
  \/ /\ \E t1, t2 \in IdentifierTokens :
          t1 < t2 /\ token_infos[t1 + 1].id = token_infos[t2 + 1].id
     /\ \E t \in Tokens : Kind(t) = "FnKeyword"

(***************************************************************************)
(* C8.  Lexing "(]" emits exactly two diagnostics, MismatchedClosing then  *)
(* UnmatchedClosing, and produces the opening '(', a synthetic ')' marked  *)
(* recovery and cross-linked to the '(', and the ']' rewritten in place to *)
(* the Error kind.  Those are three tokens; the claim counts four.         *)
(***************************************************************************)
C8_Source == <<"(", "]">>

C8_TokensOfMismatch(count) ==
  (Returned /\ source = C8_Source) =>
    /\ EmittedKinds = <<"MismatchedClosing", "UnmatchedClosing">>
    /\ Len(token_infos) = count
    /\ Kind(0) = "OpenParen"
    /\ token_infos[1].closing_token = 1
    /\ Kind(1) = "CloseParen"
    /\ token_infos[2].is_recovery
    /\ token_infos[2].opening_token = 0
    /\ Kind(count - 1) = "Error"
    /\ ~token_infos[count].is_recovery
    /\ GetTokenText(count - 1) = <<"]">>

\* The claim as stated: four tokens.
C8_FourTokens == C8_TokensOfMismatch(4)

\* The claim as amended: three tokens.
C8_ThreeTokens == C8_TokensOfMismatch(3)

C8_Witness == Returned /\ source = C8_Source

(***************************************************************************)
(* C9.  At the end of input with n groups still open, n >= 0, the final    *)
(* CloseInvalidOpenGroups(Error) emits exactly n MismatchedClosing         *)
(* diagnostics and appends exactly n recovery tokens, innermost group      *)
(* first; each has is_recovery set, has the closing kind its opener        *)
(* requires and is cross-linked with that opener.                          *)
(***************************************************************************)
C9_Step ==
  pc = "close" =>
    LET n == Len(open_groups)
        before == Len(token_infos)
    IN /\ emitted' = emitted \o Repeat(n, Diag("MismatchedClosing"))
       /\ Len(token_infos') = before + n
       /\ \A t \in Tokens : token_infos'[t + 1].kind = Kind(t)
       /\ \A i \in 1..n :
            LET opener == open_groups[n + 1 - i]
                closer == token_infos'[before + i]
            IN /\ closer.is_recovery
               /\ closer.kind = GetClosingSymbol(Kind(opener))
               /\ closer.opening_token = opener
               /\ token_infos'[opener + 1].closing_token = before + i - 1
       /\ open_groups' = <<>>

C9_FinalClosure == [][C9_Step]_vars

\* Lex returned after closing two different groups left open at the end of
\* the input.
C9_Witness ==
  /\ Returned
  /\ Len(token_infos) >= 4
  /\ \A i \in {Len(token_infos) - 1, Len(token_infos)} :
       token_infos[i].is_recovery
  /\ token_infos[Len(token_infos) - 1].kind # token_infos[Len(token_infos)].kind
  /\ EmittedKinds = <<"MismatchedClosing", "MismatchedClosing">>

(***************************************************************************)
(* C10.  When a closing symbol is lexed and the bracket stack is empty     *)
(* after group reconciliation, exactly one token is appended for it, its   *)
(* kind is rewritten to Error with error_length the length of the symbol's *)
(* spelling, exactly one UnmatchedClosing is emitted, after the            *)
(* MismatchedClosing diagnostics of the step, has_errors is set, the stack *)
(* stays empty and the token has no opening partner.                       *)
(***************************************************************************)
C10_Step ==
  LET kind == MatchSymbol(source_text)
      n == Len(open_groups)
      token == Len(token_infos) + n
  IN (/\ pc = "lex"
      /\ IsClosingSymbol(kind)
      /\ \A i \in 1..n : GetClosingSymbol(Kind(open_groups[i])) # kind) =>
       /\ Len(token_infos') = token + 1
       /\ \A t \in Len(token_infos)..(token - 1) :
            token_infos'[t + 1].is_recovery
       /\ token_infos'[token + 1].kind = "Error"
       /\ ~token_infos'[token + 1].is_recovery
       /\ token_infos'[token + 1].error_length = Len(GetFixedSpelling(kind))
       /\ token_infos'[token + 1].opening_token = NoVal
       /\ \A t \in 0..token : token_infos'[t + 1].closing_token # token
       /\ emitted' = (emitted \o Repeat(n, Diag("MismatchedClosing")))
                       \o <<Diag("UnmatchedClosing")>>
       /\ has_errors'
       /\ open_groups' = <<>>

C10_UnmatchedClosing == [][C10_Step]_vars

\* An unmatched closing symbol was lexed while a group was open.
C10_Witness ==
  \E i \in 2..Len(emitted) :
    /\ emitted[i].kind = "UnmatchedClosing"
    /\ emitted[i - 1].kind = "MismatchedClosing"

(***************************************************************************)
(* Vocabulary of the claims about integer literals.  The literal scan runs *)
(* in the states where Lex is about to try its strategies and the text     *)
(* starts with a digit; LiteralSpan is the span it will consume.           *)
(***************************************************************************)
LiteralSpan == TakeLeadingIntegerLiteral(source_text)

LiteralScan == pc = "lex" /\ LiteralSpan # <<>>

\* Position i (1-based) of a digit text, counted from the least-significant
\* end: the last character is at position 1.
FromEnd(text, i) == Len(text) - i + 1

\* The separators of text are at exactly every stride-th position from the
\* least-significant end.
UniformGrouping(text, stride) ==
  \A i \in 1..Len(text) : (text[i] = "_") <=> (FromEnd(text, i) % stride = 0)

GroupStride(radix) == IF radix = 10 THEN 4 ELSE 5

\* The alphabet of a radix as the claims spell it: 0-1, 0-9, or 0-9 and
\* upper-case A-F.
RadixAlphabet(radix) ==
  CASE radix = 2 -> {"0", "1"}
    [] radix = 10 -> {"0", "1", "2", "3", "4", "5", "6", "7", "8", "9"}
    [] radix = 16 -> {"0", "1", "2", "3", "4", "5", "6", "7", "8", "9",
                      "A", "B", "C", "D", "E", "F"}

AllDigitsValid(text, radix) ==
  \A i \in 1..Len(text) : text[i] \in RadixAlphabet(radix) \cup {"_"}

\* The step appended exactly one token, of the given kind, at the scan
\* position; and it consumed size bytes for it.
AppendsToken(kind) ==
  /\ Len(token_infos') = Len(token_infos) + 1
  /\ \A t \in Tokens : token_infos'[t + 1] = token_infos[t + 1]
  /\ token_infos'[Len(token_infos')].kind = kind
  /\ token_infos'[Len(token_infos')].token_line = current_line
  /\ token_infos'[Len(token_infos')].column = current_column

AppendsOneToken(kind, size) ==
  /\ AppendsToken(kind)
  /\ source_text' = DropFront(source_text, size)
  /\ scanned'[Len(token_infos')] = Span(Offset, Offset + size)

\* The step turned the whole literal span into one Error token and appended
\* no value.
SpanBecomesError ==
  /\ AppendsOneToken("Error", Len(LiteralSpan))
  /\ token_infos'[Len(token_infos')].error_length = Len(LiteralSpan)
  /\ int_literals' = int_literals
  /\ has_errors'

\* The step turned the whole literal span into one IntegerLiteral token whose
\* value is the digits without their separators.
SpanBecomesLiteral ==
  /\ AppendsOneToken("IntegerLiteral", Len(LiteralSpan))
  /\ token_infos'[Len(token_infos')].literal_index = Len(int_literals)
  /\ int_literals' =
       Append(int_literals,
              ParseDigits(RemoveSeparators(LiteralDigits(LiteralSpan)),
                          LiteralRadix(LiteralSpan), 0))

(***************************************************************************)
(* C11.  A decimal or hexadecimal literal (a span not rejected for its     *)
(* base specifier) whose digit text has '_' at exactly every 4th (decimal) *)
(* or 5th (hexadecimal) position from the least-significant end, nowhere   *)
(* else and not at position 0, and otherwise digits of its radix, lexes as *)
(* exactly one IntegerLiteral token, with no diagnostic, has_errors        *)
(* untouched, and the separator-stripped digits as its value.              *)
(***************************************************************************)
C11_Step ==
  LET radix == LiteralRadix(LiteralSpan)
      digits == LiteralDigits(LiteralSpan)
  IN (/\ LiteralScan
      /\ ~UnknownBase(LiteralSpan)
      /\ radix \in {10, 16}
      /\ digits # <<>>
      /\ digits[1] # "_"
      /\ AllDigitsValid(digits, radix)
      /\ UniformGrouping(digits, GroupStride(radix))) =>
       /\ SpanBecomesLiteral
       /\ emitted' = emitted
       /\ has_errors' = has_errors
       /\ pc' = "skip"

C11_UniformGroupingAccepted == [][C11_Step]_vars

\* "1_000" was lexed: one IntegerLiteral of value 1000, nothing diagnosed.
C11_Witness ==
  /\ Returned
  /\ source = <<"1", "_", "0", "0", "0">>
  /\ Len(token_infos) = 1
  /\ Kind(0) = "IntegerLiteral"
  /\ int_literals = <<1000>>
  /\ emitted = <<>>
  /\ ~has_errors

\* The diagnostics the step emitted, and how many of them are of a kind.
NewDiagnostics == SubSeq(emitted', Len(emitted) + 1, Len(emitted'))

NewOfKind(kind) ==
  Cardinality({i \in 1..Len(NewDiagnostics) : NewDiagnostics[i].kind = kind})

HasSeparator(text) == \E i \in 1..Len(text) : text[i] = "_"

(***************************************************************************)
(* C12.  For a decimal or hexadecimal literal whose digits are all valid   *)
(* and that contains at least one '_', IrregularDigitSeparators is emitted *)
(* if and only if the separators deviate from the uniform grouping (some   *)
(* every-4th/5th-from-the-right position is not '_', or a '_' is           *)
(* elsewhere), and at most once; it is non-fatal: the token is still an    *)
(* IntegerLiteral whose value is the separator-stripped digits; and it is  *)
(* never emitted for a binary literal.                                     *)
(* Refuted by the code in its non-fatal part: the digit text of "0x_" is   *)
(* diagnosed as irregular and accepted, and then there is nothing to       *)
(* parse (C1).                                                             *)
(***************************************************************************)
C12_Step ==
  LET radix == LiteralRadix(LiteralSpan)
      digits == LiteralDigits(LiteralSpan)
  IN (/\ LiteralScan
      /\ ~UnknownBase(LiteralSpan)
      /\ AllDigitsValid(digits, radix)
      /\ HasSeparator(digits)) =>
       /\ radix \in {10, 16} =>
            NewOfKind("IrregularDigitSeparators") =
              (IF UniformGrouping(digits, GroupStride(radix)) THEN 0 ELSE 1)
       /\ radix = 2 => NewOfKind("IrregularDigitSeparators") = 0
       /\ SpanBecomesLiteral

C12_IrregularIffDeviation == [][C12_Step]_vars

(***************************************************************************)
(* C13.  A literal span of length >= 2 whose first character is '0' and    *)
(* whose second character is neither 'x' nor 'b' lexes as exactly one      *)
(* Error token over the whole span, with exactly one UnknownBaseSpecifier  *)
(* diagnostic and no other, has_errors set and no value appended.          *)
(***************************************************************************)
C13_Step ==
  (/\ LiteralScan
   /\ Len(LiteralSpan) >= 2
   /\ LiteralSpan[1] = "0"
   /\ LiteralSpan[2] \notin {"x", "b"}) =>
    /\ SpanBecomesError
    /\ emitted' = Append(emitted, Diag("UnknownBaseSpecifier"))
    /\ pc' = "skip"

C13_UnknownBaseSpecifier == [][C13_Step]_vars

\* "0_1A" was lexed: the separator and the letter that follow the 0 are not
\* examined.
C13_Witness ==
  /\ Returned
  /\ source = <<"0", "_", "1", "A">>
  /\ Len(token_infos) = 1
  /\ Kind(0) = "Error"
  /\ GetTokenText(0) = source
  /\ EmittedKinds = <<"UnknownBaseSpecifier">>
  /\ has_errors
  /\ int_literals = <<>>

\* The positions of a digit text that hold neither a digit of the radix nor a
\* separator.
InvalidPositions(text, radix) ==
  {i \in 1..Len(text) : text[i] \notin RadixAlphabet(radix) \cup {"_"}}

FirstOf(positions) == CHOOSE i \in positions : \A j \in positions : i <= j

(***************************************************************************)
(* C14.  When the digit text of a literal (a span not rejected for its     *)
(* base specifier) contains a character that is neither '_' nor a digit of *)
(* the radix, exactly one InvalidDigit is emitted, naming the first such   *)
(* character and the radix; validation stops there: it is the last         *)
(* diagnostic of the step, no separator after it is diagnosed and the      *)
(* grouping is not checked; the whole span, prefix included, becomes       *)
(* exactly one Error token, and no value is appended.                      *)
(***************************************************************************)
C14_Step ==
  LET radix == LiteralRadix(LiteralSpan)
      digits == LiteralDigits(LiteralSpan)
      invalid == InvalidPositions(digits, radix)
      first == FirstOf(invalid)
      separators_before == {i \in 1..(first - 1) : digits[i] = "_"}
  IN (LiteralScan /\ ~UnknownBase(LiteralSpan) /\ invalid # {}) =>
       /\ NewOfKind("InvalidDigit") = 1
       /\ NewDiagnostics[Len(NewDiagnostics)] =
            [Diag("InvalidDigit") EXCEPT !.digit = digits[first],
                                         !.radix = radix]
       /\ NewOfKind("InvalidDigitSeparator") <= Cardinality(separators_before)
       /\ NewOfKind("InvalidDigitSeparator") = Len(NewDiagnostics) - 1
       /\ SpanBecomesError
       /\ pc' = "skip"

C14_InvalidDigit == [][C14_Step]_vars

\* "0xb_" was lexed: the lower-case letter is diagnosed and the trailing
\* separator is not.
C14_Witness ==
  /\ Returned
  /\ source = <<"0", "x", "b", "_">>
  /\ Len(token_infos) = 1
  /\ Kind(0) = "Error"
  /\ GetTokenText(0) = source
  /\ emitted = <<[Diag("InvalidDigit") EXCEPT !.digit = "b", !.radix = 16]>>
  /\ int_literals = <<>>

\* The separators of a digit text that are first, last or next to another
\* separator on either side.
MisplacedSeparators(text) ==
  {i \in 1..Len(text) :
     /\ text[i] = "_"
     /\ \/ i = 1
        \/ i = Len(text)
        \/ text[i - 1] = "_"
        \/ text[i + 1] = "_"}

(***************************************************************************)
(* C15.  In a literal's digit text, every '_' that is at position 0, at    *)
(* the last position or adjacent to another '_' on either side triggers an *)
(* InvalidDigitSeparator, one per such '_' (up to the invalid digit that   *)
(* stops validation, if there is one); the diagnostic is non-fatal: with   *)
(* no invalid digit, the token is still an IntegerLiteral whose value is   *)
(* the separator-stripped digits.                                          *)
(* Refuted by the code: "0x_" is diagnosed, accepted and leaves nothing to *)
(* parse (C1); and of two adjacent separators, as in "1__0", only the      *)
(* second is diagnosed.                                                    *)
(***************************************************************************)
C15_Step ==
  LET radix == LiteralRadix(LiteralSpan)
      digits == LiteralDigits(LiteralSpan)
      invalid == InvalidPositions(digits, radix)
      examined == IF invalid = {} THEN Len(digits) ELSE FirstOf(invalid) - 1
  IN (LiteralScan /\ ~UnknownBase(LiteralSpan) /\ digits # <<>>) =>
       /\ NewOfKind("InvalidDigitSeparator") =
            Cardinality(MisplacedSeparators(digits) \cap 1..examined)
       /\ invalid = {} => SpanBecomesLiteral

C15_InvalidDigitSeparator == [][C15_Step]_vars

(***************************************************************************)
(* C16.  A numeric literal with no digits after its radix prefix, "0x" or  *)
(* "0b" and nothing more, emits exactly one EmptyDigitSequence and becomes *)
(* exactly one Error token over the whole literal, with has_errors set and *)
(* no value appended.                                                      *)
(***************************************************************************)
C16_Step ==
  (LiteralScan /\ LiteralSpan \in {<<"0", "x">>, <<"0", "b">>}) =>
    /\ SpanBecomesError
    /\ emitted' = Append(emitted, Diag("EmptyDigitSequence"))
    /\ pc' = "skip"

AtComment == pc = "skip" /\ StartsWith(source_text, <<"/", "/">>)

RestOfLine ==
  TakeWhile(source_text,
            [i \in 1..Len(source_text) |-> NotNewline(source_text[i])])

\* The step consumed the rest of the line and its newline.
SkipsLine ==
  /\ source_text' = DropFront(source_text, Len(RestOfLine) + 1)
  /\ pc' # "lex"

\* The step appended one DocComment token, over the rest of the line.
AppendsDocComment ==
  /\ AppendsToken("DocComment")
  /\ scanned'[Len(token_infos')] = Span(Offset, Offset + Len(RestOfLine))

\* All that the step did to the token list is appending a DocComment, if
\* that.
NoTokenButDocComment ==
  \/ token_infos' = token_infos
  \/ ~set_indent /\ AppendsDocComment

(***************************************************************************)
(* C17, as claimed.  A comment introduced by "//" extends to the end of    *)
(* its line and is whitespace wherever on the line it begins: apart from   *)
(* the DocComment case no token is produced from any character between    *)
(* the "//" and the newline, also when a token was lexed earlier on the    *)
(* line (indent flag set).                                                 *)
(***************************************************************************)
C17_Step == AtComment => (SkipsLine /\ NoTokenButDocComment)

C17_CommentAnywhere == [][C17_Step]_vars

(***************************************************************************)
(* C17, as the code has it.  A "//" is a comment only where no token has   *)
(* yet set the line's indent: there it extends to the end of its line and  *)
(* is whitespace, a DocComment being the only token it can give.  Where    *)
(* the indent flag is already set, "//" is no comment: SkipWhitespace      *)
(* returns with the text untouched and the token strategies make a token   *)
(* of it.                                                                  *)
(***************************************************************************)
C17_AmendedStep ==
  /\ (AtComment /\ ~set_indent) => (SkipsLine /\ NoTokenButDocComment)
  /\ (AtComment /\ set_indent) =>
       (pc' = "lex" /\ UNCHANGED <<source_text, token_infos>>)
  /\ (pc = "lex" /\ StartsWith(source_text, <<"/", "/">>)) =>
       /\ set_indent
       /\ Len(token_infos') = Len(token_infos) + 1
       /\ Len(source_text') < Len(source_text)

C17_CommentBeforeTokens == [][C17_AmendedStep]_vars

\* "//$" on the first line and "a //" on the second were lexed: the leading
\* comment gave no token, the "//" after the identifier gave one.
C17_Witness ==
  /\ Returned
  /\ source = <<"/", "/", "$", "\n", "a", " ", "/", "/">>
  /\ Len(token_infos) = 2
  /\ Kind(0) = "Identifier"
  /\ token_infos[1].token_line = 1
  /\ GetTokenText(1) = <<"/", "/">>

(***************************************************************************)
(* C18.  A DocComment token is produced exactly when, with the line's      *)
(* indent not yet captured, the text at the scan position is three '/'     *)
(* followed by a space; it then spans the remainder of the line, captures  *)
(* the line's indent at its column and, the line being consumed, is the    *)
(* only DocComment of the line.  Three '/' not followed by a space, as in  *)
(* "///x" or "///" at the end of a line, form an ordinary comment that     *)
(* produces no token.                                                      *)
(* Refuted by the code: the test is startswith("///"), with no look at the *)
(* character after.                                                        *)
(***************************************************************************)
C18_Step ==
  LET doc == /\ ~set_indent
             /\ StartsWith(source_text, <<"/", "/", "/", " ">>)
  IN pc = "skip" =>
       /\ doc =>
            /\ AppendsDocComment
            /\ line_infos'[current_line + 1].indent = current_column
            /\ SkipsLine
       /\ ~doc => token_infos' = token_infos
       /\ (~doc /\ AtComment /\ ~set_indent) => SkipsLine

C18_DocCommentNeedsSpace == [][C18_Step]_vars

(***************************************************************************)
(* C19.  Each run of the fallback error scan, reached only when the        *)
(* symbol, keyword/identifier and integer strategies consumed nothing,     *)
(* appends exactly one Error token over the consumed span, which has at    *)
(* least one byte and no newline, emits exactly one UnrecognizedCharacters *)
(* diagnostic to the diagnostic emitter, and sets has_errors.              *)
(* Refuted by the code: LexError writes its message to llvm::errs() and    *)
(* emits nothing to the emitter.                                           *)
(***************************************************************************)
C19_Step ==
  LET consumed == Len(source_text) - Len(source_text')
  IN (/\ pc = "lex"
      /\ MatchSymbol(source_text) = "Error"
      /\ ~(isAlpha(source_text[1]) \/ source_text[1] = "_")
      /\ LiteralSpan = <<>>) =>
       /\ consumed >= 1
       /\ AppendsOneToken("Error", consumed)
       /\ token_infos'[Len(token_infos')].error_length = consumed
       /\ \A i \in 1..consumed : source_text[i] # "\n"
       /\ emitted' = Append(emitted, Diag("UnrecognizedCharacters"))
       /\ has_errors'

C19_UnrecognizedCharacters == [][C19_Step]_vars

(***************************************************************************)
(* C20, as claimed.  Round-trip idempotence: for every input, lexing the   *)
(* text obtained by concatenating GetTokenText of each token of the        *)
(* finished buffer in order, joined by single spaces, yields the same      *)
(* sequence of token kinds as the original lexing, recovery, Error and     *)
(* DocComment tokens included.                                             *)
(***************************************************************************)
Relexed == original.lexed /\ pc \in {"done", "aborted"}

HasKind(kinds, kind) == \E i \in 1..Len(kinds) : kinds[i] = kind

Lines == 0..(Len(line_infos) - 1)

Scanning == pc \in {"skip", "lex"}

\* The bytes of the source from a 0-based offset up to the next newline.
BytesBeforeNewline(start) ==
  LET rest == DropFront(source, start)
  IN TakeWhile(rest, [i \in 1..Len(rest) |-> NotNewline(rest[i])])

\* The newlines of the source that are not its last byte.
InnerNewlines == {i \in 1..(Len(source) - 1) : source[i] = "\n"}

(***************************************************************************)
(* C21.  Line table structure, for every input: lines are appended in      *)
(* strictly increasing start offset; line 0 starts at offset 0 and line    *)
(* k+1 starts one byte after the newline that ended line k; each line's    *)
(* length is the number of bytes before its newline or before the end of   *)
(* the input; a newline that is the last byte of the input creates no      *)
(* further line; and a line's length and indent are each written at most   *)
(* once: length stays unwritten while the line is current and indent while *)
(* the line's indent flag is unset, and once written neither changes.      *)
(***************************************************************************)
C21_Structure ==
  /\ line_infos[1].start = 0
  /\ \A k \in Lines \ {0} :
       LET line == line_infos[k + 1]
           previous == line_infos[k]
       IN /\ line.start > previous.start
          /\ source[line.start] = "\n"
          /\ line.start = previous.start + previous.length + 1
          /\ previous.length = Len(BytesBeforeNewline(previous.start))
  /\ Scanning =>
       /\ line_infos[current_line + 1].length = 0
       /\ ~set_indent => line_infos[current_line + 1].indent = 0
  /\ Returned =>
       /\ \A k \in Lines :
            line_infos[k + 1].length =
              Len(BytesBeforeNewline(line_infos[k + 1].start))
       /\ Len(line_infos) = 1 + Cardinality(InnerNewlines)

C21_Step ==
  /\ Len(line_infos') >= Len(line_infos)
  /\ \A k \in Lines :
       /\ line_infos'[k + 1].start = line_infos[k + 1].start
       /\ (k # current_line \/ ~Scanning) =>
            line_infos'[k + 1] = line_infos[k + 1]
       /\ (k = current_line /\ set_indent) =>
            line_infos'[k + 1].indent = line_infos[k + 1].indent

C21_LineTable == []C21_Structure /\ [][C21_Step]_vars

\* "\n a\n" was lexed: an empty line, a line with an indented token, and a
\* final newline that opens no third line.
C21_Witness ==
  /\ Returned
  /\ source = <<"\n", " ", "a", "\n">>
  /\ line_infos = <<LineInfo(0, 0, 0), LineInfo(1, 2, 1)>>

\* The tokens a line owns, and the lowest-indexed of a set of tokens.
TokensOfLine(line) == {t \in Tokens : token_infos[t + 1].token_line = line}

FirstToken(tokens) == CHOOSE t \in tokens : \A u \in tokens : t <= u

(***************************************************************************)
(* C22.  In the finished buffer, for every line that owns at least one     *)
(* token, the recovery tokens of the forced closure at the end of the      *)
(* input included, the line's indent equals the column of the              *)
(* lowest-indexed token on that line.                                      *)
(* Refuted by the code: LexError adds its Error token without capturing    *)
(* the indent, and so does the forced closure at the end of the input.     *)
(***************************************************************************)
C22_IndentIsFirstColumn ==
  Returned =>
    \A line \in Lines :
      TokensOfLine(line) # {} =>
        line_infos[line + 1].indent =
          token_infos[FirstToken(TokensOfLine(line)) + 1].column

\* Position (line, column) of a token record, and the lexicographic order on
\* positions.
PositionOf(info) == <<info.token_line, info.column>>

NotAfter(p, q) == p[1] < q[1] \/ (p[1] = q[1] /\ p[2] <= q[2])

(***************************************************************************)
(* C23.  The token table is append-only and in position order: no step     *)
(* removes or reorders tokens or changes the line or column of an existing *)
(* token; the only changes to an existing token are bracket partner links  *)
(* being filled in and a closing symbol's kind being rewritten to Error;   *)
(* and for tokens i < j the position (line, column) of i is not after that *)
(* of j.                                                                   *)
(***************************************************************************)
C23_Order ==
  \A i, j \in Tokens :
    i < j => NotAfter(PositionOf(token_infos[i + 1]),
                      PositionOf(token_infos[j + 1]))

C23_Step ==
  /\ Len(token_infos') >= Len(token_infos)
  /\ \A t \in Tokens :
       LET old == token_infos[t + 1]
           new == token_infos'[t + 1]
       IN /\ PositionOf(new) = PositionOf(old)
          /\ new.is_recovery = old.is_recovery
          /\ new.id = old.id
          /\ new.literal_index = old.literal_index
          /\ \/ new.kind = old.kind /\ new.error_length = old.error_length
             \/ IsClosingSymbol(old.kind) /\ new.kind = "Error"
          /\ new.opening_token \in {old.opening_token} \cup Tokens
          /\ old.closing_token # NoVal =>
               new.closing_token = old.closing_token
          /\ old.opening_token # NoVal =>
               new.opening_token = old.opening_token

C23_AppendOnly == []C23_Order /\ [][C23_Step]_vars

\* "(" on one line and "]" on the next were lexed: the recovery ')' and the
\* ']' that forced it sit at the same position, on the second line.
C23_Witness ==
  /\ Returned
  /\ source = <<"(", "\n", "]">>
  /\ Len(token_infos) = 3
  /\ token_infos[2].is_recovery
  /\ PositionOf(token_infos[2]) = <<1, 0>>
  /\ PositionOf(token_infos[3]) = <<1, 0>>
  /\ token_infos[1].closing_token = 1

\* The tokens of opening-symbol kind that have no closing partner yet.
UnclosedOpenings ==
  {t \in Tokens :
     IsOpeningSymbol(Kind(t)) /\ token_infos[t + 1].closing_token = NoVal}

(***************************************************************************)
(* C24.  Bracket-stack invariant: between the steps of Lex, open_groups    *)
(* holds exactly the tokens of opening-symbol kind that have no closing    *)
(* partner yet, each once, in increasing token index from bottom to top;   *)
(* a symbol that neither opens nor closes a group leaves the stack         *)
(* unchanged; the stack is empty at the start and when Lex returns.        *)
(***************************************************************************)
C24_Stack ==
  /\ {open_groups[i] : i \in 1..Len(open_groups)} = UnclosedOpenings
  /\ \A i, j \in 1..Len(open_groups) :
       i < j => open_groups[i] < open_groups[j]
  /\ token_infos = <<>> => open_groups = <<>>
  /\ Returned => open_groups = <<>>

C24_Step ==
  LET kind == MatchSymbol(source_text)
  IN (/\ pc = "lex"
      /\ kind # "Error"
      /\ ~IsOpeningSymbol(kind)
      /\ ~IsClosingSymbol(kind)) =>
       open_groups' = open_groups

C24_BracketStack == []C24_Stack /\ [][C24_Step]_vars

\* While "()([" is lexed: the first group is closed and the two later
\* opening symbols are on the stack.
C24_Witness ==
  /\ source = <<"(", ")", "(", "[">>
  /\ open_groups = <<2, 3>>
  /\ token_infos[1].closing_token = 1
  /\ Scanning

\* The matched pairs <<opening, closing>> of the buffer.
Pairs ==
  {<<o, token_infos[o + 1].closing_token>> :
     o \in {t \in Tokens : token_infos[t + 1].closing_token # NoVal}}

RecoveryTokens == {t \in Tokens : token_infos[t + 1].is_recovery}

EmittedOfKind(kind) == {i \in 1..Len(emitted) : emitted[i].kind = kind}

(***************************************************************************)
(* C25.  In the finished buffer every matched bracket pair is well formed: *)
(* the closing token has the closing kind its opening token requires and a *)
(* greater index, and pairs are properly nested.  Only tokens synthesized  *)
(* by group reconciliation have is_recovery: they are closing symbols that *)
(* consumed no source byte and have an opening partner; and there are as   *)
(* many of them as MismatchedClosing diagnostics.                          *)
(***************************************************************************)
C25_WellFormedPairs ==
  Returned =>
    /\ \A p \in Pairs :
         /\ p[2] \in Tokens
         /\ Kind(p[2]) = GetClosingSymbol(Kind(p[1]))
         /\ p[1] < p[2]
         /\ token_infos[p[2] + 1].opening_token = p[1]
    /\ \A p, q \in Pairs :
         (p[1] < q[1] /\ q[1] < p[2]) => q[2] < p[2]
    /\ \A t \in RecoveryTokens :
         /\ IsClosingSymbol(Kind(t))
         /\ scanned[t + 1].start = scanned[t + 1].stop
         /\ token_infos[t + 1].opening_token \in Tokens
    /\ Cardinality(RecoveryTokens) =
         Cardinality(EmittedOfKind("MismatchedClosing"))

\* "[()" was lexed: the pair of parentheses is nested in the pair that the
\* recovery ']' closes.
C25_Witness ==
  /\ Returned
  /\ source = <<"[", "(", ")">>
  /\ Pairs = {<<0, 3>>, <<1, 2>>}
  /\ RecoveryTokens = {3}
  /\ EmittedKinds = <<"MismatchedClosing">>

\* The digits in order of their value, and the unsigned integer a text of
\* digits denotes in a radix.
DigitsByValue ==
  <<"0", "1", "2", "3", "4", "5", "6", "7", "8", "9",
    "A", "B", "C", "D", "E", "F">>

ValueOfDigit(c) ==
  (CHOOSE i \in 1..Len(DigitsByValue) : DigitsByValue[i] = c) - 1

RECURSIVE Denoted(_, _)
Denoted(text, radix) ==
  IF text = <<>> THEN 0
  ELSE Denoted(SubSeq(text, 1, Len(text) - 1), radix) * radix
         + ValueOfDigit(text[Len(text)])

IntegerLiteralTokens == {t \in Tokens : Kind(t) = "IntegerLiteral"}

\* The digit text of a literal token with the prefix and every '_' removed.
CleanedDigits(t) ==
  SelectSeq(LiteralDigits(ScannedText(t)), IsNoSeparator)

(***************************************************************************)
(* C26.  Integer-literal table consistency: after any sequence of lexing   *)
(* steps int_literals has as many entries as there are IntegerLiteral      *)
(* tokens, the k-th of them in token order has literal_index k, and the    *)
(* stored value is the unsigned integer that the literal's digit text,     *)
(* prefix and every '_' removed, denotes in radix 2, 10 or 16; Error       *)
(* tokens made from numeric spans add no entry.                            *)
(* Refuted by the code where "0x_" is lexed past the llvm_unreachable of   *)
(* C1: an IntegerLiteral is stored for a digit text that has no digit.     *)
(***************************************************************************)
C26_LiteralTable ==
  /\ Len(int_literals) = Cardinality(IntegerLiteralTokens)
  /\ \A t \in IntegerLiteralTokens :
       LET radix == LiteralRadix(ScannedText(t))
           cleaned == CleanedDigits(t)
           index == token_infos[t + 1].literal_index
       IN /\ index = Cardinality({u \in IntegerLiteralTokens : u < t})
          /\ cleaned # <<>>
          /\ \A i \in 1..Len(cleaned) : cleaned[i] \in RadixAlphabet(radix)
          /\ int_literals[index + 1] = Denoted(cleaned, radix)

(***************************************************************************)
(* Vocabulary of the claim about function definitions.                     *)
(***************************************************************************)
\* A step in which SemanticsHandleFunctionDefinition handles the end of the
\* function whose FunctionDefinitionStart entry is on top of the node stack.
DefinitionHandled ==
  /\ TopKind(context) = "FunctionDefinitionStart"
  /\ Len(context'.node_stack) = Len(context.node_stack) - 1

\* A step in which SemanticsHandleFunctionDefinitionStart pushes that entry.
DefinitionStarted ==
  /\ TopKind(context) # "FunctionDefinitionStart"
  /\ TopKind(context') = "FunctionDefinitionStart"

EndReachable == context.node_block_stack[Len(context.node_block_stack)] >= 0

DeclaresReturnType ==
  LET function_id == context.node_stack[Len(context.node_stack)].id
  IN context.functions[function_id + 1].return_type_id >= 0

ImplicitReturns(ctx) ==
  {n \in 1..Len(ctx.nodes) :
     ctx.nodes[n].kind = "Return"
       /\ ctx.nodes[n].parse_node = "FunctionDefinition"}

NodesUnchanged ==
  /\ context'.nodes = context.nodes
  /\ context'.node_blocks = context.node_blocks

\* One node more, an implicit Return, the last of the current block.
OneReturnAdded ==
  LET block == context.node_block_stack[Len(context.node_block_stack)]
  IN /\ Len(context'.nodes) = Len(context.nodes) + 1
     /\ SubSeq(context'.nodes, 1, Len(context.nodes)) = context.nodes
     /\ Len(context'.nodes) \in ImplicitReturns(context')
     /\ context'.node_blocks =
          [context.node_blocks EXCEPT
             ![block + 1] = Append(@, Len(context.nodes))]

OnePopped(before, after) ==
  before # <<>> /\ after = SubSeq(before, 1, Len(before) - 1)

OnePushed(before, after) == Len(after) = Len(before) + 1

(***************************************************************************)
(* C27.  SemanticsHandleFunctionDefinition: where the current position is  *)
(* reachable and the function has a valid declared return type it emits    *)
(* exactly one MissingReturnStatement diagnostic and adds no node; where   *)
(* it is reachable and there is no valid return type it adds exactly one   *)
(* implicit Return node and emits nothing; where it is unreachable it does *)
(* neither.  In all three cases it pops exactly one entry each from        *)
(* return_scope_stack, the scope stack and node_block_stack, each of which *)
(* SemanticsHandleFunctionDefinitionStart pushed once, and returns true.   *)
(***************************************************************************)
C27_Step ==
  /\ DefinitionHandled =>
       /\ (EndReachable /\ DeclaresReturnType) =>
            /\ context'.emitted =
                 Append(context.emitted, "MissingReturnStatement")
            /\ NodesUnchanged
       /\ (EndReachable /\ ~DeclaresReturnType) =>
            /\ OneReturnAdded
            /\ context'.emitted = context.emitted
       /\ ~EndReachable =>
            /\ NodesUnchanged
            /\ context'.emitted = context.emitted
       /\ OnePopped(context.return_scope_stack, context'.return_scope_stack)
       /\ OnePopped(context.scope_stack, context'.scope_stack)
       /\ OnePopped(context.node_block_stack, context'.node_block_stack)
       /\ context'.result
  /\ DefinitionStarted =>
       /\ OnePushed(context.return_scope_stack, context'.return_scope_stack)
       /\ OnePushed(context.scope_stack, context'.scope_stack)
       /\ OnePushed(context.node_block_stack, context'.node_block_stack)

C27_FunctionDefinition == [][C27_Step]_vars

\* Two definitions are handled: one ends reachable with a declared return
\* type, the other ends reachable without one.
C27_Witness ==
  /\ context.result
  /\ context.node_stack = <<>>
  /\ Len(context.functions) = 2
  /\ context.emitted = <<"MissingReturnStatement">>
  /\ Cardinality(ImplicitReturns(context)) = 1
  /\ context.return_scope_stack = <<>>
  /\ Len(context.scope_stack) = 1
  /\ Len(context.node_block_stack) = 1

====
